---- MODULE Spec2Model ----
(***************************************************************************)
(* The "please" command line program (package main): argument dispatch,    *)
(* the generation pipeline of main, generateScript's provider dispatch,    *)
(* getFallbackModel, and the alias shims written by installAlias and       *)
(* removed by uninstallAlias.  A behaviour is a sequence of invocations of *)
(* the program over one file system; everything but the file system is     *)
(* rebuilt at the start of each invocation.                                *)
(*                                                                         *)
(* Optional values (a Go pointer or error that may be nil) are sequences   *)
(* of length 0 (nil) or 1.  An error value is the sequence of the pieces   *)
(* of its message; the nil error is the empty sequence.                    *)
(***************************************************************************)
EXTENDS Integers, Sequences, FiniteSets, TLC

VARIABLES
    files,      \* the shim files on disk: path -> <<>> (absent) or <<content>>
    runs,       \* number of invocations started so far
    prev,       \* <<>> or <<the previous invocation>>, when it was an alias command
    pc,         \* position of the current invocation in main
    args,       \* os.Args[1:]
    filesStart, \* the shim files when the current invocation started
    io,         \* the results the operating system gave to the alias commands
    out,        \* the lines printed by the current invocation, in order
    exitCode,   \* <<>> while running, <<code>> once the process has ended
    cfgErr,     \* config.Load() returned an error
    cfg,        \* <<>> or <<the configuration in use>>
    scriptType, \* config.DetermineScriptType(cfg)
    provider,   \* config.DetermineProvider(cfg)
    selErr,     \* models.SelectBestModel returned an error
    selected,   \* the model models.SelectBestModel returned ("" with an error)
    model,      \* the variable model of main once the fallback is applied
    request,    \* <<>> or <<the ScriptRequest>>
    calls,      \* constructions of and calls on providers, in order
    result      \* <<>> or <<what generateScript returned>>

vars == <<files, runs, prev, pc, args, filesStart, io, out, exitCode, cfgErr,
          cfg, scriptType, provider, selErr, selected, model, request, calls,
          result>>

genVars == <<cfgErr, cfg, scriptType, provider, selErr, selected, model, request,
            calls, result>>

(***************************************************************************)
(* Bounds and input sets                                                   *)
(***************************************************************************)
MaxRuns == 3

Supported == {"ollama", "openai", "anthropic"}

\* the names config.DetermineProvider may give: the three known ones, a
\* name in another case and an unknown name
ProviderNames == Supported \cup {"Ollama", "gemini"}

\* what models.SelectBestModel may select
SelectableModels == {"codellama", "gpt-4o"}

ScriptTypes == {"powershell", "bash"}

\* os.Args[1:] of an invocation
ArgLists == {<<>>, <<"--install-alias">>, <<"--uninstall-alias">>,
             <<"--version">>, <<"--help">>, <<"-h">>,
             <<"list", "files">>, <<"--install-alias", "now">>}

\* what os.Executable() may return: two copies of the binary in one directory
ExecPaths == {<<"tools", "please.exe">>, <<"tools", "ol.exe">>}

None == <<>>
Some(x) == <<x>>

(***************************************************************************)
(* Paths and the file system                                               *)
(***************************************************************************)
\* filepath.Dir and filepath.Join on a path held as its components
Dir(path) == SubSeq(path, 1, Len(path) - 1)
Join(dir, name) == Append(dir, name)

ShimNames == {"pls.bat", "ol.bat"}
ShimPaths == {Join(Dir(p), n) : p \in ExecPaths, n \in ShimNames}

\* what a shim path may hold before the program first runs
ForeignContent == <<"rem written by hand">>

\* the results of a system call that the environment decides
WriteFaults == {"none", "open", "write"}
RemoveFaults == {"none", "perm"}

\* os.WriteFile(path, content, 0755): O_WRONLY|O_CREATE|O_TRUNC, write, close.
\* A failed open leaves the file as it was; a failed write leaves it
\* truncated.
WriteFile(fs, path, content, fault) ==
    CASE fault = "open"  -> [files |-> fs, err |-> <<"open", "EACCES">>]
      [] fault = "write" -> [files |-> [fs EXCEPT ![path] = Some(<<>>)],
                             err |-> <<"write", "ENOSPC">>]
      [] OTHER           -> [files |-> [fs EXCEPT ![path] = Some(content)],
                             err |-> None]

\* os.Remove(path)
Remove(fs, path, fault) ==
    CASE fault = "perm"    -> [files |-> fs, err |-> <<"remove", "EACCES">>]
      [] fs[path] = None   -> [files |-> fs, err |-> <<"remove", "ENOENT">>]
      [] OTHER             -> [files |-> [fs EXCEPT ![path] = None], err |-> None]

IsNotExist(err) == err /= None /\ err[2] = "ENOENT"

(***************************************************************************)
(* ui.PrintRainbowBanner and ui.PrintInstallationSuccess                   *)
(***************************************************************************)
banner == <<"banner row 1", "banner row 2", "banner row 3",
            "banner row 4", "banner row 5", "banner row 6">>
colors == <<"Rainbow1", "Rainbow2", "Rainbow3", "Rainbow4", "Rainbow5",
            "Rainbow6", "Rainbow7">>

PrintRainbowBanner ==
    [i \in 1..Len(banner) |-> <<colors[((i - 1) % Len(colors)) + 1], banner[i]>>]

PrintInstallationSuccess ==
    << <<"Installation complete!">>, <<"Try it out:">>,
       <<"  pls create a hello world script">>,
       <<"  ol create a hello world script (legacy)">>,
       <<"Magic happens with just 3 letters: 'pls'">> >>

(***************************************************************************)
(* installAlias                                                            *)
(***************************************************************************)
MsgInstalling == <<"Installing 'pls' alias (with 'ol' for backwards compatibility)...">>
MsgExecPathFailed(err) == <<"Failed to get executable path: ">> \o err
MsgCreateFailed(name, err) == <<"Failed to create ", name, ": ">> \o err
MsgOlWarning(err) ==
    <<"Warning: Failed to create ol.bat for backwards compatibility: ">> \o err
MsgCreatedPls == <<"Successfully created pls.bat!">>
MsgCreatedOl == <<"Created ol.bat for backwards compatibility">>

\* fmt.Sprintf("@echo off\n\"%s\" %%*\n", execPath)
batContent(execPath) == <<"@echo off", "\"">> \o execPath \o <<"\" %*">>

\* variant: pls.bat is created exclusively, an existing one is an error
installAlias_NoOverwrite(fs, exec, f1, f2) ==
    LET head == PrintRainbowBanner \o <<MsgInstalling>> IN
    IF exec.err /= None
    THEN [files |-> fs, out |-> head \o <<MsgExecPathFailed(exec.err)>>]
    ELSE
      LET dir == Dir(exec.path)
          content == batContent(exec.path)
          w1 == IF fs[Join(dir, "pls.bat")] /= None
                THEN [files |-> fs, err |-> <<"open", "EEXIST">>]
                ELSE WriteFile(fs, Join(dir, "pls.bat"), content, f1)
      IN IF w1.err /= None
         THEN [files |-> w1.files,
               out |-> head \o <<MsgCreateFailed("pls.bat", w1.err)>>]
         ELSE
           LET w2 == WriteFile(w1.files, Join(dir, "ol.bat"), content, f2)
               warn == IF w2.err /= None THEN <<MsgOlWarning(w2.err)>> ELSE <<>>
           IN [files |-> w2.files,
               out |-> head \o warn \o <<MsgCreatedPls, MsgCreatedOl>>
                            \o PrintInstallationSuccess]

\* exec is what os.Executable() returned: [path, err]
installAlias(fs, exec, f1, f2) ==
    LET head == PrintRainbowBanner \o <<MsgInstalling>> IN
    IF exec.err /= None
    THEN [files |-> fs, out |-> head \o <<MsgExecPathFailed(exec.err)>>]
    ELSE
      LET dir == Dir(exec.path)
          content == batContent(exec.path)
          w1 == WriteFile(fs, Join(dir, "pls.bat"), content, f1)
      IN IF w1.err /= None
         THEN [files |-> w1.files,
               out |-> head \o <<MsgCreateFailed("pls.bat", w1.err)>>]
         ELSE
           LET w2 == WriteFile(w1.files, Join(dir, "ol.bat"), content, f2)
               warn == IF w2.err /= None THEN <<MsgOlWarning(w2.err)>> ELSE <<>>
           IN [files |-> w2.files,
               out |-> head \o warn \o <<MsgCreatedPls, MsgCreatedOl>>
                            \o PrintInstallationSuccess]

(***************************************************************************)
(* uninstallAlias                                                          *)
(***************************************************************************)
MsgRemoving == <<"Removing aliases...">>
MsgNotFound(name) == <<name, " not found">>
MsgRemoveFailed(name, err) == <<"Failed to remove ", name, ": ">> \o err
MsgRemoved(name) == <<"Successfully removed ", name>>

\* the line printed for the result of one os.Remove
RemoveReport(name, err) ==
    IF err /= None
    THEN IF IsNotExist(err) THEN MsgNotFound(name) ELSE MsgRemoveFailed(name, err)
    ELSE MsgRemoved(name)

\* variant: the function returns when pls.bat could not be removed
uninstallAlias_StopAfterPls(fs, exec, f1, f2) ==
    LET head == PrintRainbowBanner \o <<MsgRemoving>> IN
    IF exec.err /= None
    THEN [files |-> fs, out |-> head \o <<MsgExecPathFailed(exec.err)>>]
    ELSE
      LET dir == Dir(exec.path)
          r1 == Remove(fs, Join(dir, "pls.bat"), f1)
          r2 == Remove(r1.files, Join(dir, "ol.bat"), f2)
      IN IF r1.err /= None
         THEN [files |-> r1.files, out |-> head \o <<RemoveReport("pls.bat", r1.err)>>]
         ELSE [files |-> r2.files,
               out |-> head \o <<RemoveReport("pls.bat", r1.err),
                                 RemoveReport("ol.bat", r2.err)>>]

uninstallAlias(fs, exec, f1, f2) ==
    LET head == PrintRainbowBanner \o <<MsgRemoving>> IN
    IF exec.err /= None
    THEN [files |-> fs, out |-> head \o <<MsgExecPathFailed(exec.err)>>]
    ELSE
      LET dir == Dir(exec.path)
          r1 == Remove(fs, Join(dir, "pls.bat"), f1)
          r2 == Remove(r1.files, Join(dir, "ol.bat"), f2)
      IN [files |-> r2.files,
          out |-> head \o <<RemoveReport("pls.bat", r1.err),
                            RemoveReport("ol.bat", r2.err)>>]

(***************************************************************************)
(* Providers                                                               *)
(***************************************************************************)
\* variant: an unknown name falls back to the Ollama implementation
NewProvider_FallbackOllama(name) ==
    CASE name = "ollama"    -> Some("OllamaProvider")
      [] name = "openai"    -> Some("OpenAIProvider")
      [] name = "anthropic" -> Some("AnthropicProvider")
      [] OTHER              -> Some("OllamaProvider")

\* variant: the case "openai" constructs the Anthropic implementation
NewProvider_OpenAIAsAnthropic(name) ==
    CASE name = "ollama"    -> Some("OllamaProvider")
      [] name = "openai"    -> Some("AnthropicProvider")
      [] name = "anthropic" -> Some("AnthropicProvider")
      [] OTHER              -> None

\* the switch of generateScript: the implementation constructed for a
\* provider name, None in the default case
NewProvider(name) ==
    CASE name = "ollama"    -> Some("OllamaProvider")
      [] name = "openai"    -> Some("OpenAIProvider")
      [] name = "anthropic" -> Some("AnthropicProvider")
      [] OTHER              -> None

\* how a call of Provider.GenerateScript may end, and the scripts it may give
GenOutcomes == {"ok", "error"}
Scripts == {<<"echo hello">>, <<"cd /tmp", "ls">>}

\* Provider.GenerateScript(request) of implementation impl: a response that
\* echoes the request, or an error and no response
ProviderGenerateScript(impl, req, gen, script) ==
    IF gen = "ok"
    THEN [response |-> Some([TaskDescription |-> req.TaskDescription,
                             Model |-> req.Model,
                             Provider |-> req.Provider,
                             ScriptType |-> req.ScriptType,
                             Script |-> script,
                             producedBy |-> impl]),
          err |-> None]
    ELSE [response |-> None, err |-> <<impl, ": request failed">>]

Call(op, impl, ret) == [op |-> op, impl |-> impl, ret |-> ret]

\* variant: the result of IsConfigured is not looked at
generateScript_NoConfigCheck(c, req, isConf, gen, script) ==
    LET p == NewProvider(req.Provider) IN
    IF p = None
    THEN [calls |-> <<>>, response |-> None,
          err |-> <<"unsupported provider: ", req.Provider>>]
    ELSE
      LET impl == p[1]
          r == ProviderGenerateScript(impl, req, gen, script)
      IN [calls |-> <<Call("New", impl, "-"),
                      Call("IsConfigured", impl, IF isConf THEN "true" ELSE "false"),
                      Call("GenerateScript", impl, gen)>>,
          response |-> r.response,
          err |-> r.err]

\* variant: a failed GenerateScript is tried a second time
generateScript_Retry(c, req, isConf, gen, script) ==
    LET p == NewProvider(req.Provider) IN
    IF p = None
    THEN [calls |-> <<>>, response |-> None,
          err |-> <<"unsupported provider: ", req.Provider>>]
    ELSE
      LET impl == p[1]
          made == <<Call("New", impl, "-")>>
      IN IF ~isConf
         THEN [calls |-> made \o <<Call("IsConfigured", impl, "false")>>,
               response |-> None,
               err |-> <<"provider ", req.Provider, " is not properly configured">>]
         ELSE
           LET r == ProviderGenerateScript(impl, req, gen, script)
               again == IF r.err /= None
                        THEN <<Call("GenerateScript", impl, gen)>> ELSE <<>>
           IN [calls |-> made \o <<Call("IsConfigured", impl, "true"),
                                   Call("GenerateScript", impl, gen)>> \o again,
               response |-> r.response,
               err |-> r.err]

\* generateScript(cfg, request); isConf, gen and script are what the
\* provider's IsConfigured and GenerateScript give when they are called
generateScript(c, req, isConf, gen, script) ==
    LET p == NewProvider(req.Provider) IN
    IF p = None
    THEN [calls |-> <<>>, response |-> None,
          err |-> <<"unsupported provider: ", req.Provider>>]
    ELSE
      LET impl == p[1]
          made == <<Call("New", impl, "-")>>
      IN IF ~isConf
         THEN [calls |-> made \o <<Call("IsConfigured", impl, "false")>>,
               response |-> None,
               err |-> <<"provider ", req.Provider, " is not properly configured">>]
         ELSE
           LET r == ProviderGenerateScript(impl, req, gen, script)
           IN [calls |-> made \o <<Call("IsConfigured", impl, "true"),
                                   Call("GenerateScript", impl, gen)>>,
               response |-> r.response,
               err |-> r.err]

\* variant: the case "anthropic" is missing
getFallbackModel_NoAnthropic(name) ==
    CASE name = "openai"    -> "gpt-3.5-turbo"
      [] OTHER              -> "llama3.2"

\* getFallbackModel(provider)
getFallbackModel(name) ==
    CASE name = "openai"    -> "gpt-3.5-turbo"
      [] name = "anthropic" -> "claude-3-haiku-20240307"
      [] OTHER              -> "llama3.2"

(***************************************************************************)
(* The steps of main                                                       *)
(***************************************************************************)
\* strings.Join(os.Args[1:], " ")
RECURSIVE JoinArgs(_)
JoinArgs(a) ==
    IF Len(a) = 0 THEN <<>>
    ELSE IF Len(a) = 1 THEN <<a[1]>>
    ELSE <<a[1], " ">> \o JoinArgs(Tail(a))

\* the cases of the switch on os.Args[1]
SpecialFlags == {"--install-alias", "--uninstall-alias", "--version", "--help", "-h"}

CreateDefault == [origin |-> "default"]
LoadedConfig == [origin |-> "file"]

\* variant: a configuration that cannot be loaded ends the run
mainLoadConfig_Abort(loadErr, saveErr) ==
    IF loadErr
    THEN [cfg |-> CreateDefault, pc |-> "exited", exitCode |-> Some(1),
          out |-> << <<"Error: ", "cannot load the configuration">> >>]
    ELSE [cfg |-> LoadedConfig, pc |-> "determine", exitCode |-> None, out |-> <<>>]

\* cfg, err := config.Load(); on an error the default configuration is used
\* and the result of saving it is ignored
mainLoadConfig(loadErr, saveErr) ==
    [cfg |-> IF loadErr THEN CreateDefault ELSE LoadedConfig,
     pc |-> "determine", exitCode |-> None, out |-> <<>>]

MsgModelWarning == <<"Warning: Could not auto-select model, using fallback">>

\* model, err := models.SelectBestModel(...), with the fallback
mainSelectModel(name, err, sel) ==
    IF err THEN [model |-> getFallbackModel(name), out |-> <<MsgModelWarning>>]
    ELSE [model |-> sel, out |-> <<>>]

MsgError(err) == <<"Error: ">> \o err

\* variant: the error is printed and main returns instead of os.Exit(1)
mainOnResult_ExitZero(res) ==
    IF res.err /= None
    THEN [pc |-> "exited", exitCode |-> Some(0), out |-> <<MsgError(res.err)>>]
    ELSE [pc |-> "display", exitCode |-> None, out |-> <<>>]

\* what main does with the result of generateScript
mainOnResult(res) ==
    IF res.err /= None
    THEN [pc |-> "exited", exitCode |-> Some(1), out |-> <<MsgError(res.err)>>]
    ELSE [pc |-> "display", exitCode |-> None, out |-> <<>>]

\* fmt.Sprintf("%3d", i) for the line numbers of a script
Fmt3d == <<"  1", "  2", "  3", "  4">>

MsgGenerated == <<"Script generated successfully!">>
MsgScriptMenu == <<"ui.ShowScriptMenu">>

\* displayScriptAndConfirm(response); the script is held as its lines
displayScriptAndConfirm(r) ==
    << <<"Please Script Generator">>,
       <<"Task: ">> \o r.TaskDescription,
       <<"Model: ", r.Model, " (", r.Provider, ")">>,
       <<"Platform: ", r.ScriptType, " script">>,
       <<"Generated Script">> >>
    \o [i \in 1..Len(r.Script) |-> <<Fmt3d[i], "|", r.Script[i]>>]
    \o <<MsgGenerated, MsgScriptMenu>>

(***************************************************************************)
(* State machine                                                           *)
(***************************************************************************)
ExecOk(path) == [path |-> path, err |-> None]
ExecFailed == [path |-> <<>>, err |-> <<"executable", "ENOENT">>]
ExecResults == {ExecOk(p) : p \in ExecPaths} \cup {ExecFailed}

NoIO == [exec |-> ExecFailed, f1 |-> "none", f2 |-> "none", used |-> FALSE]

Init ==
    /\ files \in [ShimPaths -> {None, Some(ForeignContent)}]
    /\ runs = 0
    /\ prev = None
    /\ pc = "idle"
    /\ args = <<>>
    /\ filesStart = files
    /\ io = NoIO
    /\ out = <<>>
    /\ exitCode = None
    /\ cfgErr = FALSE
    /\ cfg = None
    /\ scriptType = ""
    /\ provider = ""
    /\ selErr = FALSE
    /\ selected = ""
    /\ model = ""
    /\ request = None
    /\ calls = <<>>
    /\ result = None

\* the shell starts the program: a new process, the same file system
Exec(a) ==
    /\ pc \in {"idle", "exited"}
    /\ runs < MaxRuns
    /\ runs' = runs + 1
    /\ prev' = IF pc = "exited" /\ io.used
               THEN Some([args |-> args, io |-> io])
               ELSE None
    /\ pc' = "main"
    /\ args' = a
    /\ filesStart' = files
    /\ io' = NoIO
    /\ out' = <<>>
    /\ exitCode' = None
    /\ cfgErr' = FALSE
    /\ cfg' = None
    /\ scriptType' = ""
    /\ provider' = ""
    /\ selErr' = FALSE
    /\ selected' = ""
    /\ model' = ""
    /\ request' = None
    /\ calls' = <<>>
    /\ result' = None
    /\ UNCHANGED files

\* main returns: the process ends with status 0
Return(lines) ==
    /\ out' = out \o lines
    /\ pc' = "exited"
    /\ exitCode' = Some(0)

\* case "--install-alias": installAlias(); return
InstallAliasCmd ==
    /\ pc = "main"
    /\ Len(args) >= 1 /\ args[1] = "--install-alias"
    /\ \E exec \in ExecResults, f1, f2 \in WriteFaults :
         LET r == installAlias(files, exec, f1, f2) IN
         /\ files' = r.files
         /\ io' = [exec |-> exec, f1 |-> f1, f2 |-> f2, used |-> TRUE]
         /\ Return(r.out)
    /\ UNCHANGED <<runs, prev, args, filesStart>>
    /\ UNCHANGED genVars

\* case "--uninstall-alias": uninstallAlias(); return
UninstallAliasCmd ==
    /\ pc = "main"
    /\ Len(args) >= 1 /\ args[1] = "--uninstall-alias"
    /\ \E exec \in ExecResults, f1, f2 \in RemoveFaults :
         LET r == uninstallAlias(files, exec, f1, f2) IN
         /\ files' = r.files
         /\ io' = [exec |-> exec, f1 |-> f1, f2 |-> f2, used |-> TRUE]
         /\ Return(r.out)
    /\ UNCHANGED <<runs, prev, args, filesStart>>
    /\ UNCHANGED genVars

\* case "--version": ui.ShowVersion(); return
ShowVersionCmd ==
    /\ pc = "main"
    /\ Len(args) >= 1 /\ args[1] = "--version"
    /\ Return(<< <<"ui.ShowVersion">> >>)
    /\ UNCHANGED <<files, runs, prev, args, filesStart, io>>
    /\ UNCHANGED genVars

\* case "--help", "-h": ui.ShowHelp(); return
ShowHelpCmd ==
    /\ pc = "main"
    /\ Len(args) >= 1 /\ args[1] \in {"--help", "-h"}
    /\ Return(<< <<"ui.ShowHelp">> >>)
    /\ UNCHANGED <<files, runs, prev, args, filesStart, io>>
    /\ UNCHANGED genVars

\* no arguments: ui.ShowMainMenu(); return
ShowMainMenuCmd ==
    /\ pc = "main"
    /\ Len(args) < 1
    /\ Return(<< <<"ui.ShowMainMenu">> >>)
    /\ UNCHANGED <<files, runs, prev, args, filesStart, io>>
    /\ UNCHANGED genVars

\* cfg, err := config.Load(), and the default configuration on an error
LoadConfig ==
    /\ pc = "main"
    /\ Len(args) >= 1 /\ args[1] \notin SpecialFlags
    /\ \E loadErr, saveErr \in BOOLEAN :
         LET r == mainLoadConfig(loadErr, saveErr) IN
         /\ cfgErr' = loadErr
         /\ cfg' = Some(r.cfg)
         /\ pc' = r.pc
         /\ exitCode' = r.exitCode
         /\ out' = out \o r.out
    /\ UNCHANGED <<files, runs, prev, args, filesStart, io>>
    /\ UNCHANGED <<scriptType, provider, selErr, selected, model, request, calls, result>>

\* scriptType := config.DetermineScriptType(cfg)
\* provider := config.DetermineProvider(cfg)
Determine ==
    /\ pc = "determine"
    /\ scriptType' \in ScriptTypes
    /\ provider' \in ProviderNames
    /\ pc' = "select"
    /\ UNCHANGED <<files, runs, prev, args, filesStart, io, out, exitCode>>
    /\ UNCHANGED <<cfgErr, cfg, selErr, selected, model, request, calls, result>>

\* the model: models.SelectBestModel, or the fallback when it fails
SelectModel ==
    /\ pc = "select"
    /\ \E err \in BOOLEAN, m \in SelectableModels :
         LET sel == IF err THEN "" ELSE m
             r == mainSelectModel(provider, err, sel)
         IN
         /\ selErr' = err
         /\ selected' = sel
         /\ model' = r.model
         /\ out' = out \o r.out
         /\ request' = Some([TaskDescription |-> JoinArgs(args),
                             ScriptType |-> scriptType,
                             Provider |-> provider,
                             Model |-> r.model])
    /\ pc' = "generate"
    /\ UNCHANGED <<files, runs, prev, args, filesStart, io, exitCode>>
    /\ UNCHANGED <<cfgErr, cfg, scriptType, provider, calls, result>>

\* response, err := generateScript(cfg, request), and the exit on an error
Generate ==
    /\ pc = "generate"
    /\ \E isConf \in BOOLEAN, gen \in GenOutcomes, script \in Scripts :
         LET res == generateScript(cfg[1], request[1], isConf, gen, script)
             r == mainOnResult(res)
         IN /\ calls' = calls \o res.calls
            /\ result' = Some([response |-> res.response, err |-> res.err])
            /\ pc' = r.pc
            /\ exitCode' = r.exitCode
            /\ out' = out \o r.out
    /\ UNCHANGED <<files, runs, prev, args, filesStart, io>>
    /\ UNCHANGED <<cfgErr, cfg, scriptType, provider, selErr, selected, model, request>>

\* displayScriptAndConfirm(response), then main returns
Display ==
    /\ pc = "display"
    /\ Return(displayScriptAndConfirm(result[1].response[1]))
    /\ UNCHANGED <<files, runs, prev, args, filesStart, io>>
    /\ UNCHANGED genVars

Next ==
    \/ \E a \in ArgLists : Exec(a)
    \/ InstallAliasCmd
    \/ UninstallAliasCmd
    \/ ShowVersionCmd
    \/ ShowHelpCmd
    \/ ShowMainMenuCmd
    \/ LoadConfig
    \/ Determine
    \/ SelectModel
    \/ Generate
    \/ Display

Spec == Init /\ [][Next]_vars

(***************************************************************************)
(* Properties                                                              *)
(***************************************************************************)
Has(seq, x) == \E i \in DOMAIN seq : seq[i] = x

\* the calls of operation op made in the current invocation
CallsOf(op) == {i \in DOMAIN calls : calls[i].op = op}
ImplsCalled == {calls[i].impl : i \in DOMAIN calls}

\* the implementation that belongs to a provider name
ImplNamed(name) ==
    CASE name = "ollama"    -> "OllamaProvider"
      [] name = "openai"    -> "OpenAIProvider"
      [] name = "anthropic" -> "AnthropicProvider"
      [] OTHER              -> "no implementation"

\* a line of displayScriptAndConfirm or the script menu has been printed
Displayed ==
    \E i \in DOMAIN out :
        \/ out[i] \in {MsgScriptMenu, MsgGenerated, <<"Please Script Generator">>,
                       <<"Generated Script">>}
        \/ out[i][1] \in {"Task: ", "Model: ", "Platform: "}
        \/ \E k \in DOMAIN Fmt3d : out[i][1] = Fmt3d[k]

InstallRun(a) == Len(a) >= 1 /\ a[1] = "--install-alias"
UninstallRun(a) == Len(a) >= 1 /\ a[1] = "--uninstall-alias"
NoFault(i) == i.used /\ i.exec.err = None /\ i.f1 = "none" /\ i.f2 = "none"

\* a line that reports a failure of an alias command
ErrorLine(line) ==
    line[1] \in {"Failed to get executable path: ", "Failed to create ",
                 "Failed to remove ",
                 "Warning: Failed to create ol.bat for backwards compatibility: "}

\* C1: for a provider name other than "ollama", "openai" and "anthropic",
\* generateScript returns no response and the error "unsupported provider",
\* and no provider has been constructed or called.
C1_UnsupportedProvider ==
    (result /= None /\ request[1].Provider \notin {"ollama", "openai", "anthropic"})
    => /\ result[1].response = None
       /\ result[1].err = <<"unsupported provider: ", request[1].Provider>>
       /\ calls = <<>>

C1_Witness ==
    /\ result /= None
    /\ request[1].Provider = "gemini"
    /\ pc = "exited"

\* C2: GenerateScript is called only after IsConfigured of the same provider
\* returned true in the same run; when IsConfigured returned false there is no
\* call of GenerateScript, no response, and the error "not properly configured".
C2_ConfiguredBeforeGenerate ==
    /\ \A i \in CallsOf("GenerateScript") :
           \E j \in 1..(i - 1) : calls[j] = Call("IsConfigured", calls[i].impl, "true")
    /\ (\E j \in CallsOf("IsConfigured") : calls[j].ret = "false")
       => /\ CallsOf("GenerateScript") = {}
          /\ result /= None
          /\ result[1].response = None
          /\ result[1].err = <<"provider ", request[1].Provider,
                               " is not properly configured">>

C2_Witness ==
    /\ Has(calls, Call("IsConfigured", "OpenAIProvider", "false"))
    /\ pc = "exited"

\* C3: when model selection fails the request carries "gpt-3.5-turbo" for
\* "openai", "claude-3-haiku-20240307" for "anthropic" and "llama3.2" for any
\* other provider name, and the run goes on to generateScript; when selection
\* succeeds the request carries the selected model.
C3_FallbackModel ==
    /\ request /= None =>
         /\ (selErr /\ provider = "openai")
                => request[1].Model = "gpt-3.5-turbo"
         /\ (selErr /\ provider = "anthropic")
                => request[1].Model = "claude-3-haiku-20240307"
         /\ (selErr /\ provider \notin {"openai", "anthropic"})
                => request[1].Model = "llama3.2"
         /\ ~selErr => (request[1].Model = selected /\ selected \in SelectableModels)
         /\ request[1].Provider = provider
    /\ selErr => /\ request /= None
                 /\ Has(out, MsgModelWarning)
                 /\ pc \in {"generate", "display", "exited"}
                 /\ pc = "generate" => exitCode = None
                 /\ pc /= "generate" => result /= None

C3_Witness ==
    /\ selErr
    /\ provider = "anthropic"
    /\ CallsOf("GenerateScript") /= {}

\* C4: every provider constructed or called in a run is the implementation of
\* the provider named in the request, a response was produced by that
\* implementation, and at most one implementation is used in a run.
C4_NamedProviderOnly ==
    /\ calls /= <<>> => request /= None
    /\ \A i \in DOMAIN calls : calls[i].impl = ImplNamed(request[1].Provider)
    /\ Cardinality(ImplsCalled) <= 1
    /\ (result /= None /\ result[1].response /= None)
       => /\ result[1].response[1].producedBy = ImplNamed(request[1].Provider)
          /\ result[1].response[1].Provider = request[1].Provider
          /\ request[1].Provider \in {"ollama", "openai", "anthropic"}
          /\ Has(calls, Call("GenerateScript", ImplNamed(request[1].Provider), "ok"))
    /\ (result /= None /\ result[1].err /= None) => result[1].response = None

C4_Witness ==
    /\ result /= None
    /\ result[1].response /= None
    /\ request[1].Provider = "openai"

\* C5: an installAlias whose writes succeed prints no failure line and leaves
\* both shims holding the batch file for the executable, whatever the shim
\* paths held before; run directly after such an installAlias for the same
\* executable, it leaves the shim files exactly as the first run left them.
C5_InstallIdempotent ==
    (pc = "exited" /\ InstallRun(args) /\ NoFault(io))
    => /\ \A i \in DOMAIN out : ~ErrorLine(out[i])
       /\ Has(out, MsgCreatedPls)
       /\ \A n \in ShimNames :
              files[Join(Dir(io.exec.path), n)]
                  = Some(<<"@echo off", "\"">> \o io.exec.path \o <<"\" %*">>)
       /\ (/\ prev /= None
           /\ InstallRun(prev[1].args)
           /\ NoFault(prev[1].io)
           /\ prev[1].io.exec = io.exec)
          => files = filesStart

C5_Witness ==
    /\ pc = "exited" /\ InstallRun(args) /\ NoFault(io)
    /\ prev /= None /\ InstallRun(prev[1].args) /\ NoFault(prev[1].io)
    /\ prev[1].io.exec = io.exec
    /\ runs = 2

\* C6: in uninstallAlias a shim that does not exist is reported "not found"
\* and not "Failed to remove"; the removal of ol.bat is reported whatever
\* happened to pls.bat; with no failure other than not-exist, neither shim
\* file exists afterwards.
C6_UninstallNotFound ==
    (pc = "exited" /\ UninstallRun(args) /\ io.exec.err = None)
    => LET pls == Join(Dir(io.exec.path), "pls.bat")
           ol == Join(Dir(io.exec.path), "ol.bat")
           failed(n) == \E i \in DOMAIN out :
                            /\ Len(out[i]) >= 2
                            /\ out[i][1] = "Failed to remove "
                            /\ out[i][2] = n
       IN /\ (filesStart[pls] = None /\ io.f1 = "none")
                => (Has(out, <<"pls.bat", " not found">>) /\ ~failed("pls.bat"))
          /\ (filesStart[ol] = None /\ io.f2 = "none")
                => (Has(out, <<"ol.bat", " not found">>) /\ ~failed("ol.bat"))
          /\ \/ Has(out, <<"ol.bat", " not found">>)
             \/ Has(out, <<"Successfully removed ", "ol.bat">>)
             \/ failed("ol.bat")
          /\ (io.f1 = "none" /\ io.f2 = "none")
                => (files[pls] = None /\ files[ol] = None)

C6_Witness ==
    /\ pc = "exited" /\ UninstallRun(args) /\ io.exec.err = None
    /\ filesStart[Join(Dir(io.exec.path), "pls.bat")] = None
    /\ filesStart[Join(Dir(io.exec.path), "ol.bat")] /= None
    /\ io.f1 = "none" /\ io.f2 = "none"

\* C7: in one invocation GenerateScript is called at most once and at most
\* one provider is used; after a failed call nothing of a result is displayed.
C7_SingleAttempt ==
    /\ Cardinality(CallsOf("GenerateScript")) <= 1
    /\ Cardinality(CallsOf("New")) <= 1
    /\ Cardinality(ImplsCalled) <= 1
    /\ (\E i \in CallsOf("GenerateScript") : calls[i].ret = "error")
       => (~Displayed /\ pc = "exited" /\ calls[Len(calls)].op = "GenerateScript")

C7_Witness ==
    /\ \E i \in CallsOf("GenerateScript") : calls[i].ret = "error"
    /\ pc = "exited"

\* C8: when generateScript returned an error the error is printed, the
\* process has ended with status 1 and nothing is displayed; whatever is
\* displayed is displayed after a generateScript that returned a response and
\* no error.
C8_ErrorExitsNonZero ==
    /\ (result /= None /\ result[1].err /= None)
       => /\ pc = "exited"
          /\ exitCode = Some(1)
          /\ Has(out, <<"Error: ">> \o result[1].err)
          /\ ~Displayed
    /\ (Displayed \/ pc = "display")
       => /\ result /= None
          /\ result[1].err = None
          /\ result[1].response /= None
    /\ (pc = "exited" /\ result /= None /\ result[1].err = None)
       => (Displayed /\ exitCode = Some(0))

C8_Witness ==
    /\ result /= None
    /\ result[1].err = <<"provider ", "ollama", " is not properly configured">>
    /\ exitCode = Some(1)

\* C9 as stated: when loading the configuration fails, the run does not go on
\* to script generation.
C9_NoRecoveryFromLoadFailure ==
    cfgErr => (pc = "exited" /\ result = None /\ request = None /\ calls = <<>>)

\* C9, amended: a failed configuration load is recovered from as well: the
\* run goes on to generateScript with the default configuration and never
\* ends before generateScript has returned; an error of generateScript is
\* not recovered from.
C9_LoadFailureUsesDefault ==
    /\ cfgErr => /\ cfg = Some([origin |-> "default"])
                 /\ pc \in {"determine", "select", "generate", "display", "exited"}
                 /\ pc = "exited" => result /= None
                 /\ exitCode /= None => result /= None
    /\ (cfg /= None /\ ~cfgErr) => cfg = Some([origin |-> "file"])
    /\ (result /= None /\ result[1].err /= None)
       => (exitCode = Some(1) /\ result[1].response = None /\ ~Displayed)

C9_Witness ==
    /\ cfgErr
    /\ result /= None
    /\ result[1].response /= None
    /\ pc = "exited"

\* C10: installAlias prints "Created ol.bat for backwards compatibility" only
\* when writing ol.bat succeeded; when writing pls.bat fails no success line
\* is printed and ol.bat is not written.
C10_SuccessOnlyForWrittenShims ==
    (pc = "exited" /\ InstallRun(args))
    => /\ Has(out, MsgCreatedOl)
            => (io.exec.err = None /\ io.f1 = "none" /\ io.f2 = "none")
       /\ (io.exec.err = None /\ io.f1 /= "none")
            => /\ ~Has(out, MsgCreatedPls)
               /\ ~Has(out, MsgCreatedOl)
               /\ files[Join(Dir(io.exec.path), "ol.bat")]
                      = filesStart[Join(Dir(io.exec.path), "ol.bat")]

====
